---------------------------- MODULE Spec2Model ----------------------------
(***************************************************************************)
(* A model of the calendar application of src/main.py: date text parsing   *)
(* and formatting, the event store and its file, the per-day index, and    *)
(* the highlight (colour) assignment of the multi-select filter.           *)
(*                                                                         *)
(* Encodings                                                               *)
(*   datetime   <<day, hour, minute, second>>, day an ordinal day number   *)
(*   date       the ordinal day number                                     *)
(*   text       a date text, [fmt, d, h, m, s, pad, ws]: the strptime      *)
(*              format it conforms to ("none" when it conforms to none),   *)
(*              the fields it spells, whether its numbers are zero-padded  *)
(*              and whether it carries surrounding white space             *)
(*   colour     the six hex digits of "#RRGGBB", a tuple of 0..15          *)
(*   Event      [oid, id, name, start, end, note]; oid is the identity of  *)
(*              the Python object (what `is` compares), id the uuid text   *)
(*   dict       a function with a finite domain                            *)
(*   optional   <<>> for None / an absent key, <<v>> for a present value   *)
(***************************************************************************)
EXTENDS Integers, Sequences, FiniteSets, TLC

(***************************************************************************)
(* Bounds of the model.                                                    *)
(***************************************************************************)
MaxDay == 2
\* largest ordinal day a date text of the dialogs and documents names

MaxOps == 3
\* largest number of user operations of one run

MaxEvents == 2
\* largest number of events the store holds in the small-store specification

Overflow == 1
\* number of events beyond the palette size in the large-store specification

MaxOpsLarge == 5
\* largest number of user operations of one run of the large-store
\* specification

MaxNew == 2
\* largest number of ids without a colour one apply of the large-store
\* specification adds

MaxLen == 2
\* longest event list given to build_day_map in the day-index specification

MaxDocLen == 2
\* the largest number of records of a document given to load_events

MaxSelected == 108
\* the largest number of events of the store whose rows are all selected

MaxIndex == 250
\* the index up to which the colour-drawing loop is followed

DaysPerMonth == 1
\* length of a calendar month, in days

(***************************************************************************)
(* Generic helpers.                                                        *)
(***************************************************************************)
None == <<>>

Some(v) == <<v>>

Range(s) == {s[i] : i \in DOMAIN s}

EmptyDict == <<>>

\* d[k] = v on a dict
DictSet(d, k, v) == [x \in (DOMAIN d) \cup {k} |-> IF x = k THEN v ELSE d[x]]

\* d.get(k, [])
DictGetList(d, k) == IF k \in DOMAIN d THEN d[k] ELSE <<>>

\* all enumerations without repetition of a finite set
RECURSIVE Orders(_)
Orders(S) ==
    IF S = {} THEN {<<>>}
    ELSE UNION {{<<x>> \o t : t \in Orders(S \ {x})} : x \in S}

Min(S) == CHOOSE x \in S : \A y \in S : x <= y

(***************************************************************************)
(* Colours: HIGHLIGHT_PALETTE, rgb_to_hex, pastel_from_index.              *)
(***************************************************************************)
HIGHLIGHT_PALETTE ==
    << <<13, 15, 15, 7, 14, 3>>,    \* "#DFF7E3"
       <<15, 15, 14, 0, 14, 6>>,    \* "#FFE0E6"
       <<14, 6, 14, 0, 15, 15>>,    \* "#E6E0FF"
       <<15, 15, 14, 10, 12, 12>>,  \* "#FFEACC"
       <<14, 0, 15, 7, 15, 7>>,     \* "#E0F7F7"
       <<15, 15, 15, 2, 12, 12>>,   \* "#FFF2CC"
       <<14, 7, 15, 0, 15, 15>> >>  \* "#E7F0FF"

\* f"#{r:02X}{g:02X}{b:02X}"
rgb_to_hex(r, g, b) ==
    <<r \div 16, r % 16, g \div 16, g % 16, b \div 16, b % 16>>

\* colorsys.hsv_to_rgb(hue, 0.35, 0.97) scaled by 255 and truncated, with
\* hue = (i * 0.13) % 1.0 kept in hundredths
pastel_from_index(i) ==
    LET hm  == (13 * i) % 100
        h6  == 6 * hm
        sec == (h6 \div 100) % 6
        fn  == h6 % 100
        v   == (97 * 255) \div 100
        p   == (97 * 65 * 255) \div 10000
        q   == (97 * (10000 - 35 * fn) * 255) \div 1000000
        t   == (97 * (10000 - 35 * (100 - fn)) * 255) \div 1000000
    IN  CASE sec = 0 -> rgb_to_hex(v, t, p)
          [] sec = 1 -> rgb_to_hex(q, v, p)
          [] sec = 2 -> rgb_to_hex(p, v, t)
          [] sec = 3 -> rgb_to_hex(p, q, v)
          [] sec = 4 -> rgb_to_hex(t, p, v)
          [] OTHER   -> rgb_to_hex(v, p, q)

(***************************************************************************)
(* Date texts: DT_FORMATS, parse_dt, dt_to_str.                            *)
(***************************************************************************)
DT_FORMATS == <<"%Y-%m-%d", "%Y-%m-%d %H:%M", "%Y-%m-%d %H:%M:%S">>

\* datetime.strptime(s, fmt): the text must conform to fmt as a whole, with
\* nothing around it; strptime accepts numbers without their leading zeros
strptime(s, fmt) ==
    IF s.fmt # fmt \/ s.ws THEN None
    ELSE CASE fmt = "%Y-%m-%d"       -> Some(<<s.d, 0, 0, 0>>)
           [] fmt = "%Y-%m-%d %H:%M" -> Some(<<s.d, s.h, s.m, 0>>)
           [] OTHER                  -> Some(<<s.d, s.h, s.m, s.s>>)

\* (s or "").strip()
strip(s) == [s EXCEPT !.ws = FALSE]

RECURSIVE TryFormats(_, _)
TryFormats(s, k) ==
    IF k > Len(DT_FORMATS) THEN None
    ELSE IF strptime(s, DT_FORMATS[k]) # None THEN strptime(s, DT_FORMATS[k])
    ELSE TryFormats(s, k + 1)

\* [ok, dt] on success; [ok, text, patterns] for the ValueError, with the
\* text and the patterns its message names
parse_dt(s) ==
    LET r == TryFormats(strip(s), 1)
    IN  IF r # None THEN [ok |-> TRUE, dt |-> r[1]]
        ELSE [ok |-> FALSE, text |-> strip(s),
              patterns |-> <<"%Y-%m-%d", "%Y-%m-%d %H:%M">>]

dt_to_str(dt) ==
    IF dt[2] = 0 /\ dt[3] = 0 /\ dt[4] = 0
    THEN [fmt |-> "%Y-%m-%d", d |-> dt[1], h |-> 0, m |-> 0, s |-> 0,
          pad |-> TRUE, ws |-> FALSE]
    ELSE [fmt |-> "%Y-%m-%d %H:%M", d |-> dt[1], h |-> dt[2], m |-> dt[3],
          s |-> 0, pad |-> TRUE, ws |-> FALSE]

\* the order of datetime values
DtKey(dt) == ((dt[1] * 24 + dt[2]) * 60 + dt[3]) * 60 + dt[4]

DtLess(a, b) == DtKey(a) < DtKey(b)

\* datetime.date()
DateOf(dt) == dt[1]

\* Event.overlaps_day
overlaps_day(e, d) == DateOf(e.start) <= d /\ d <= DateOf(e.end)

(***************************************************************************)
(* Events and their canonical order.                                       *)
(***************************************************************************)
\* the strings the model uses as names, in the order of str comparison
NameOrder == <<"", "a", "b", "unnamed">>

NameRank(n) == CHOOSE k \in DOMAIN NameOrder : NameOrder[k] = n

\* the sort key (e.start, e.end, e.name) of list.sort and sorted
SortKey(e) == <<DtKey(e.start), DtKey(e.end), NameRank(e.name)>>

TupleLess(a, b) ==
    \/ a[1] < b[1]
    \/ a[1] = b[1] /\ a[2] < b[2]
    \/ a[1] = b[1] /\ a[2] = b[2] /\ a[3] < b[3]

KeyLess(e1, e2) == TupleLess(SortKey(e1), SortKey(e2))

\* insert e behind every element that is not greater than it
RECURSIVE InsertSorted(_, _)
InsertSorted(e, s) ==
    IF s = <<>> THEN <<e>>
    ELSE IF KeyLess(e, s[1]) THEN <<e>> \o s
    ELSE <<s[1]>> \o InsertSorted(e, Tail(s))

\* list.sort(key=lambda e: (e.start, e.end, e.name)): a stable sort
RECURSIVE SortEvents(_)
SortEvents(s) ==
    IF s = <<>> THEN <<>>
    ELSE InsertSorted(s[Len(s)], SortEvents(SubSeq(s, 1, Len(s) - 1)))

\* the same sort with the key (e.start, e.end) of the auto-jump
StartEndLess(e1, e2) ==
    TupleLess(<<DtKey(e1.start), DtKey(e1.end), 0>>,
              <<DtKey(e2.start), DtKey(e2.end), 0>>)

IsSorted(s) == \A i \in 1..(Len(s) - 1) : ~KeyLess(s[i + 1], s[i])

Ids(evs) == {evs[i].id : i \in DOMAIN evs}

Oids(evs) == {evs[i].oid : i \in DOMAIN evs}

\* the ids of the events of a list, position by position
IdList(evs) == [k \in DOMAIN evs |-> evs[k].id]

(***************************************************************************)
(* build_day_map.                                                          *)
(***************************************************************************)
\* day_map.setdefault(cur, []).append(e)
SetDefaultAppend(dm, cur, e) == DictSet(dm, cur, Append(DictGetList(dm, cur), e))

\* AppendDays that stops before the day of the end
RECURSIVE AppendDaysExclusive(_, _, _, _)
AppendDaysExclusive(dm, e, cur, endd) ==
    IF cur < endd
    THEN AppendDaysExclusive(SetDefaultAppend(dm, cur, e), e, cur + 1, endd)
    ELSE dm

\* while cur <= endd: ...; cur += timedelta(days=1)
RECURSIVE AppendDays(_, _, _, _)
AppendDays(dm, e, cur, endd) ==
    IF cur <= endd
    THEN AppendDays(SetDefaultAppend(dm, cur, e), e, cur + 1, endd)
    ELSE dm

\* for e in events: ...
RECURSIVE FillDayMap(_, _, _)
FillDayMap(dm, evs, k) ==
    IF k > Len(evs) THEN dm
    ELSE FillDayMap(AppendDays(dm, evs[k], DateOf(evs[k].start),
                               DateOf(evs[k].end)), evs, k + 1)

\* build_day_map without the sort of the buckets
build_day_map_unsorted(evs) == FillDayMap(EmptyDict, evs, 1)

build_day_map(evs) ==
    LET filled == FillDayMap(EmptyDict, evs, 1)
    IN  [d \in DOMAIN filled |-> SortEvents(filled[d])]

(***************************************************************************)
(* The persisted document: load_events, save_events.                       *)
(* An item is [id, name, date, start, end, note], each field optional.     *)
(***************************************************************************)
\* uuid.uuid4(): an id in use nowhere; draws are named <<"uuid", n>> with
\* the smallest n that names no id in use (ids written by hand in a
\* document are <<"file", n>>)
RECURSIVE uuid4(_, _)
uuid4(in_use, n) == IF <<"uuid", n>> \in in_use THEN uuid4(in_use, n + 1)
                    ELSE <<"uuid", n>>

\* the first k draws of uuid4 when the ids of in_use are in use
RECURSIVE FreshIds(_, _)
FreshIds(in_use, k) ==
    IF k = 0 THEN <<>>
    ELSE <<uuid4(in_use, 1)>> \o FreshIds(in_use \cup {uuid4(in_use, 1)}, k - 1)

EmptyText ==
    [fmt |-> "empty", d |-> 0, h |-> 0, m |-> 0, s |-> 0, pad |-> TRUE,
     ws |-> FALSE]

\* the truth value of item.get(key) for a text field
Truthy(opt) == opt # None /\ opt[1] # EmptyText

\* str(item.get("start", ""))
TextOrEmpty(opt) == IF opt = None THEN EmptyText ELSE opt[1]

\* the parse results of one item: start and end, before the swap
ItemStart(item) ==
    IF Truthy(item.date) THEN parse_dt(item.date[1])
    ELSE parse_dt(TextOrEmpty(item.start))

\* ItemEnd that looks at the end field before the date field
ItemEndIgnoringDate(item) ==
    IF Truthy(item.end) THEN parse_dt(item.end[1])
    ELSE IF Truthy(item.date) THEN parse_dt(item.date[1])
    ELSE parse_dt(TextOrEmpty(item.start))

ItemEnd(item) ==
    IF Truthy(item.date) THEN parse_dt(item.date[1])
    ELSE IF Truthy(item.end) THEN parse_dt(item.end[1])
    ELSE parse_dt(TextOrEmpty(item.start))

ItemParses(item) == ItemStart(item).ok /\ ItemEnd(item).ok

\* the number of items among the first k that carry no (or an empty) id
MissingIds(doc, k) == Cardinality({i \in 1..k : doc[i].id = None})

\* the Event built from item k; fresh lists the draws of uuid4 of this load.
\* The objects of a load are new; they are named by their item's position.
ItemEvent(doc, k, fresh) ==
    LET item  == doc[k]
        start == ItemStart(item).dt
        end   == ItemEnd(item).dt
        swap  == DtLess(end, start)
    IN  [oid   |-> k,
         id    |-> IF item.id # None THEN item.id[1]
                   ELSE fresh[MissingIds(doc, k)],
         name  |-> IF item.name = None \/ item.name[1] = "" THEN "unnamed"
                   ELSE item.name[1],
         start |-> IF swap THEN end ELSE start,
         end   |-> IF swap THEN start ELSE end,
         note  |-> IF item.note = None THEN "" ELSE item.note[1]]

\* load_events that leaves out the items whose texts do not parse
load_events_skipping(doc, fresh) ==
    LET good == SelectSeq(doc, ItemParses)
    IN  [ok |-> TRUE,
         events |-> SortEvents([k \in DOMAIN good |-> ItemEvent(good, k, fresh)])]

\* [ok, events]: the sorted list, or the ValueError of the first bad item
load_events(doc, fresh) ==
    IF \A k \in DOMAIN doc : ItemParses(doc[k])
    THEN [ok |-> TRUE,
          events |-> SortEvents([k \in DOMAIN doc |-> ItemEvent(doc, k, fresh)])]
    ELSE [ok |-> FALSE, events |-> <<>>]

\* the document save_events writes
save_events(evs) ==
    LET sorted == SortEvents(evs)
    IN  [k \in DOMAIN sorted |->
            [id    |-> Some(sorted[k].id),
             name  |-> Some(sorted[k].name),
             date  |-> None,
             start |-> Some(dt_to_str(sorted[k].start)),
             end   |-> Some(dt_to_str(sorted[k].end)),
             note  |-> Some(sorted[k].note)]]

(***************************************************************************)
(* The highlight state: apply_selected_events and its helpers.             *)
(***************************************************************************)
\* Candidate that leaves the palette out
CandidateGenerated(next_index) == pastel_from_index(next_index)

\* the candidate colour of an index: the palette first, generated afterwards
Candidate(next_index) ==
    IF next_index < Len(HIGHLIGHT_PALETTE)
    THEN HIGHLIGHT_PALETTE[next_index + 1]
    ELSE pastel_from_index(next_index)

\* DrawColor without the test `cand not in used_colors`
DrawColorNoSkip(next_index, used_colors) ==
    [cand |-> Candidate(next_index), next_index |-> next_index + 1]

\* the while True loop: the first candidate from next_index on that is not
\* in used_colors, and the index behind it
RECURSIVE DrawColor(_, _)
DrawColor(next_index, used_colors) ==
    IF Candidate(next_index) \notin used_colors
    THEN [cand |-> Candidate(next_index), next_index |-> next_index + 1]
    ELSE DrawColor(next_index + 1, used_colors)

\* CarryForward that forgets the old colours
CarryNothing(old, selected_ids) == [eid \in {} |-> old[eid]]

\* the first loop: every selected id that had a colour keeps it
CarryForward(old, selected_ids) ==
    [eid \in selected_ids \cap DOMAIN old |-> old[eid]]

\* AssignNew that starts every id's search at the same index and does not
\* mark the drawn colour as used
RECURSIVE AssignNewSameIndex(_, _, _, _, _)
AssignNewSameIndex(colors, used_colors, next_index, order, k) ==
    IF k > Len(order) THEN colors
    ELSE AssignNewSameIndex(
             DictSet(colors, order[k], DrawColor(next_index, used_colors).cand),
             used_colors, next_index, order, k + 1)

\* the second loop, over the ids without a colour in the order in which
\* the iteration of the set meets them (ids with a colour are skipped)
RECURSIVE AssignNew(_, _, _, _, _)
AssignNew(colors, used_colors, next_index, order, k) ==
    IF k > Len(order) THEN colors
    ELSE LET drawn == DrawColor(next_index, used_colors)
         IN  AssignNew(DictSet(colors, order[k], drawn.cand),
                       used_colors \cup {drawn.cand}, drawn.next_index,
                       order, k + 1)

\* the orders in which the iteration of the set can meet the new ids
NewOrders(evs, old, selected_ids) ==
    Orders((selected_ids \cap Ids(evs)) \ DOMAIN old)

\* if e.id not in lst: lst.append(e.id), for every day of e
RECURSIVE AppendHitDays(_, _, _, _)
AppendHitDays(hm, e, cur, endd) ==
    IF cur <= endd
    THEN AppendHitDays(
             IF e.id \in Range(DictGetList(hm, cur))
             THEN DictSet(hm, cur, DictGetList(hm, cur))
             ELSE DictSet(hm, cur, Append(DictGetList(hm, cur), e.id)),
             e, cur + 1, endd)
    ELSE hm

RECURSIVE FillHitMap(_, _, _)
FillHitMap(hm, evs, k) ==
    IF k > Len(evs) THEN hm
    ELSE FillHitMap(AppendHitDays(hm, evs[k], DateOf(evs[k].start),
                                  DateOf(evs[k].end)), evs, k + 1)

SelectedEvents(evs, selected_ids) ==
    SelectSeq(evs, LAMBDA e : e.id \in selected_ids)

\* _rebuild_highlight_day_map
rebuild_highlight_day_map(evs, selected_ids) ==
    FillHitMap(EmptyDict, SortEvents(SelectedEvents(evs, selected_ids)), 1)

\* the stable sort by (e.start, e.end) of the auto-jump
RECURSIVE InsertByStartEnd(_, _)
InsertByStartEnd(e, s) ==
    IF s = <<>> THEN <<e>>
    ELSE IF StartEndLess(e, s[1]) THEN <<e>> \o s
    ELSE <<s[1]>> \o InsertByStartEnd(e, Tail(s))

\* the selected events in store order, without the sort
SortByStartEndInStoreOrder(s) == s

RECURSIVE SortByStartEnd(_)
SortByStartEnd(s) ==
    IF s = <<>> THEN <<>>
    ELSE InsertByStartEnd(s[Len(s)], SortByStartEnd(SubSeq(s, 1, Len(s) - 1)))

\* date.year and date.month of an ordinal day; years count from the year
\* of day 1
YearOf(d) == (d - 1) \div (12 * DaysPerMonth)

MonthOf(d) == (((d - 1) \div DaysPerMonth) % 12) + 1

\* apply_selected_events without the filter on the existing ids
apply_unfiltered(evs, old, ym, selected_ids, auto_jump, order) ==
    LET carried == CarryForward(old, selected_ids)
        colors  == AssignNew(carried, Range(carried), 0, order, 1)
        chosen  == SortByStartEnd(SelectedEvents(evs, selected_ids))
    IN  [selected |-> selected_ids,
         colors   |-> colors,
         hits     |-> rebuild_highlight_day_map(evs, selected_ids),
         ym       |-> IF auto_jump /\ chosen # <<>>
                      THEN <<YearOf(DateOf(chosen[1].start)),
                             MonthOf(DateOf(chosen[1].start))>>
                      ELSE ym]

\* apply_selected_events on the event list evs, the colour dict old and the
\* displayed month ym: the new [selected, colors, hits, ym]
apply_selected_events(evs, old, ym, selected_ids, auto_jump, order) ==
    LET sel     == selected_ids \cap Ids(evs)
        carried == CarryForward(old, sel)
        colors  == AssignNew(carried, Range(carried), 0, order, 1)
        first   == SortByStartEnd(SelectedEvents(evs, sel))[1]
    IN  [selected |-> sel,
         colors   |-> colors,
         hits     |-> rebuild_highlight_day_map(evs, sel),
         ym       |-> IF auto_jump /\ sel # {}
                      THEN <<YearOf(DateOf(first.start)),
                             MonthOf(DateOf(first.start))>>
                      ELSE ym]

(***************************************************************************)
(* The state of CalendarApp, the data file, and the open dropdown.         *)
(***************************************************************************)
VARIABLES
    events,                 \* self.events
    day_map,                \* self.day_map
    selected_event_ids,     \* self.selected_event_ids
    highlight_color_by_eid, \* self.highlight_color_by_eid
    highlight_day_to_eids,  \* self.highlight_day_to_eids
    year,                   \* self.year
    month,                  \* self.month
    file,                   \* the "events" list of the document in data_file
    dropdown,               \* the ids an open MultiSelectDropdown lists
    last,                   \* the last operation: its name, its steps, whether
                            \* it raised, the candidate ids of an apply, the
                            \* row and the two date texts of an add or edit,
                            \* the text and the result of a parse_dt
    ops                     \* the number of user operations so far

vars == <<events, day_map, selected_event_ids, highlight_color_by_eid,
          highlight_day_to_eids, year, month, file, dropdown, last, ops>>

highlight == <<selected_event_ids, highlight_color_by_eid,
               highlight_day_to_eids>>

\* the record of an operation that has not started a step yet
Op(name) ==
    [op |-> name, err |-> FALSE, steps |-> <<>>, cand |-> {}, eid |-> None,
     input |-> None, out |-> None]

\* the events a dict of buckets holds
BucketEvents(dm) == UNION {Range(dm[d]) : d \in DOMAIN dm}

\* the ids a document spells
DocIds(doc) == {doc[k].id[1] : k \in {j \in DOMAIN doc : doc[j].id # None}}

\* the ids in use somewhere in the program or the file
IdsInUse ==
    Ids(events) \cup {e.id : e \in BucketEvents(day_map)}
        \cup selected_event_ids \cup DOMAIN highlight_color_by_eid
        \cup UNION {Range(highlight_day_to_eids[d]) :
                        d \in DOMAIN highlight_day_to_eids}
        \cup DocIds(file)
        \cup (IF dropdown = None THEN {} ELSE dropdown[1])

\* the name of a new object: the smallest one no live object bears
RECURSIVE NewOid(_, _)
NewOid(live, n) == IF n \in live THEN NewOid(live, n + 1) ELSE n

(***************************************************************************)
(* CalendarApp.persist_and_refresh and CalendarApp.reload.                 *)
(***************************************************************************)
\* persist_and_refresh() on the event list evs, when day_map is dm; save_ok
\* tells whether path.write_text succeeds, order is the iteration order of
\* the re-apply, op the record of the operation so far
persist_and_refresh(evs, dm, save_ok, order, op) ==
    /\ events' = evs
    /\ IF save_ok
       THEN LET a == apply_selected_events(evs, highlight_color_by_eid,
                                           <<year, month>>,
                                           selected_event_ids, FALSE, order)
            IN  /\ file' = save_events(evs)
                /\ day_map' = build_day_map(evs)
                /\ selected_event_ids' = a.selected
                /\ highlight_color_by_eid' = a.colors
                /\ highlight_day_to_eids' = a.hits
                /\ year' = a.ym[1]
                /\ month' = a.ym[2]
                /\ last' = [op EXCEPT !.steps = @ \o <<"save_events",
                                "build_day_map", "apply_selected_events">>]
       ELSE /\ file' = file
            /\ day_map' = dm
            /\ UNCHANGED <<highlight, year, month>>
            /\ last' = [op EXCEPT !.err = TRUE,
                                  !.steps = @ \o <<"save_events">>]

\* CalendarApp.reload when the file holds the document doc: what the last
\* save wrote, or what the user has written by hand since. The load raises
\* on a bad item and leaves the program's state as it was
reload(doc) ==
    LET op     == Op("reload")
        loaded == load_events(doc,
                      FreshIds(IdsInUse \cup DocIds(doc),
                               MissingIds(doc, Len(doc))))
    IN  /\ file' = doc
        /\ UNCHANGED dropdown
        /\ IF loaded.ok
           THEN \E order \in NewOrders(loaded.events, highlight_color_by_eid,
                                       selected_event_ids) :
                LET a == apply_selected_events(loaded.events,
                             highlight_color_by_eid, <<year, month>>,
                             selected_event_ids, FALSE, order)
                IN  /\ events' = loaded.events
                    /\ day_map' = build_day_map(loaded.events)
                    /\ selected_event_ids' = a.selected
                    /\ highlight_color_by_eid' = a.colors
                    /\ highlight_day_to_eids' = a.hits
                    /\ year' = a.ym[1]
                    /\ month' = a.ym[2]
                    /\ last' = [op EXCEPT !.steps = <<"load_events",
                                   "build_day_map", "apply_selected_events">>]
           ELSE /\ UNCHANGED <<events, day_map, highlight, year, month>>
                /\ last' = [op EXCEPT !.err = TRUE,
                                      !.steps = <<"load_events">>]

(***************************************************************************)
(* The handlers of the day window, the dropdown and the main window.       *)
(* A dialog's outcome is an input of its handler: the texts typed into an  *)
(* EventEditor that was closed with its save button.                       *)
(***************************************************************************)
\* editor_result without the exchange of an inverted range
editor_result_unswapped(name, start, end, note) ==
    IF name = "" \/ ~parse_dt(start).ok \/ ~parse_dt(end).ok THEN None
    ELSE Some([name  |-> name,
               start |-> parse_dt(start).dt,
               end   |-> parse_dt(end).dt,
               note  |-> note])

\* EventEditor._ok: the result dict, or no result (the dialog stays open)
editor_result(name, start, end, note) ==
    IF name = "" \/ ~parse_dt(start).ok \/ ~parse_dt(end).ok THEN None
    ELSE LET s    == parse_dt(start).dt
             e    == parse_dt(end).dt
             swap == DtLess(e, s)
         IN  Some([name  |-> name,
                   start |-> IF swap THEN e ELSE s,
                   end   |-> IF swap THEN s ELSE e,
                   note  |-> note])

\* find_event_by_id that falls back on the first event of the list
find_event_by_id_or_first(evs, eid) ==
    IF eid \in Ids(evs) THEN Min({i \in DOMAIN evs : evs[i].id = eid})
    ELSE IF evs # <<>> THEN 1 ELSE 0

\* CalendarApp.find_event_by_id: the position of the first event with the
\* id, 0 for None
find_event_by_id(evs, eid) ==
    IF eid \in Ids(evs) THEN Min({i \in DOMAIN evs : evs[i].id = eid}) ELSE 0

\* the ids of the rows of the open day windows' trees: refresh() fills a
\* tree from day_map, and runs whenever day_map is rebuilt
TreeIds == {e.id : e \in BucketEvents(day_map)}

\* an assignment to the fields of an Event object, as seen through the
\* references day_map holds to it
MutateAliases(dm, oid, ev) ==
    [d \in DOMAIN dm |->
        [i \in DOMAIN dm[d] |-> IF dm[d][i].oid = oid THEN ev ELSE dm[d][i]]]

\* DayDetailsWindow.add_event
add_event(name, start, end, note, save_ok) ==
    /\ editor_result(name, start, end, note) # None
    /\ LET r   == editor_result(name, start, end, note)[1]
           new == [oid   |-> NewOid(Oids(events) \cup
                                {e.oid : e \in BucketEvents(day_map)}, 1),
                   id    |-> uuid4(IdsInUse, 1),
                   name  |-> r.name,
                   start |-> r.start,
                   end   |-> r.end,
                   note  |-> r.note]
           evs == Append(events, new)
       IN  \E order \in NewOrders(evs, highlight_color_by_eid,
                                  selected_event_ids) :
               persist_and_refresh(evs, day_map, save_ok, order,
                   [Op("add") EXCEPT !.eid = Some(new.id),
                                     !.input = Some(<<start, end>>)])
    /\ UNCHANGED dropdown

\* DayDetailsWindow.edit_event on the tree row eid
edit_event(eid, name, start, end, note, save_ok) ==
    /\ eid \in TreeIds
    /\ LET i == find_event_by_id(events, eid)
       IN  IF i = 0
           THEN \E order \in NewOrders(events, highlight_color_by_eid,
                                       selected_event_ids) :
                    persist_and_refresh(events, day_map, save_ok, order,
                        [Op("edit") EXCEPT !.steps = <<"not_found">>,
                                           !.eid = Some(eid)])
           ELSE /\ editor_result(name, start, end, note) # None
                /\ LET r   == editor_result(name, start, end, note)[1]
                       ev  == [events[i] EXCEPT !.name = r.name,
                                                !.start = r.start,
                                                !.end = r.end,
                                                !.note = r.note]
                       evs == [events EXCEPT ![i] = ev]
                       dm  == MutateAliases(day_map, ev.oid, ev)
                   IN  \E order \in NewOrders(evs, highlight_color_by_eid,
                                              selected_event_ids) :
                           persist_and_refresh(evs, dm, save_ok, order,
                               [Op("edit") EXCEPT
                                   !.eid = Some(eid),
                                   !.input = Some(<<start, end>>)])
    /\ UNCHANGED dropdown

\* DayDetailsWindow.delete_event on the tree row eid, confirmed
delete_event(eid, save_ok) ==
    /\ eid \in TreeIds
    /\ LET i   == find_event_by_id(events, eid)
           evs == SelectSeq(events, LAMBDA e : e.id # eid)
       IN  \E order \in NewOrders(evs, highlight_color_by_eid,
                                  selected_event_ids) :
               persist_and_refresh(evs, day_map, save_ok, order,
                   [Op("delete") EXCEPT !.eid = Some(eid),
                                        !.steps = IF i = 0
                                                  THEN <<"not_found">>
                                                  ELSE <<>>])
    /\ UNCHANGED dropdown

\* CalendarApp.open_multiselect_dropdown: the dropdown lists the ids of
\* get_event_display_items
open_multiselect_dropdown ==
    /\ dropdown = None
    /\ dropdown' = Some(Ids(events))
    /\ UNCHANGED <<events, day_map, highlight, year, month, file, last, ops>>

\* MultiSelectDropdown._apply with the rows cand selected
apply(cand, auto_jump) ==
    /\ dropdown # None
    /\ cand \subseteq dropdown[1]
    /\ \E order \in NewOrders(events, highlight_color_by_eid, cand) :
           LET a == apply_selected_events(events, highlight_color_by_eid,
                        <<year, month>>, cand, auto_jump, order)
           IN  /\ selected_event_ids' = a.selected
               /\ highlight_color_by_eid' = a.colors
               /\ highlight_day_to_eids' = a.hits
               /\ year' = a.ym[1]
               /\ month' = a.ym[2]
    /\ dropdown' = None
    /\ last' = [Op("apply") EXCEPT !.steps = <<"apply_selected_events">>,
                                   !.cand = cand,
                                   !.input = Some(auto_jump)]
    /\ UNCHANGED <<events, day_map, file>>

\* clear_highlight that keeps the colour dict
clear_highlight_keeping_colours ==
    /\ selected_event_ids' = {}
    /\ highlight_day_to_eids' = EmptyDict
    /\ UNCHANGED highlight_color_by_eid
    /\ last' = [Op("clear") EXCEPT !.cand = selected_event_ids]
    /\ UNCHANGED <<events, day_map, year, month, file, dropdown>>

\* CalendarApp.clear_highlight
clear_highlight ==
    /\ selected_event_ids' = {}
    /\ highlight_day_to_eids' = EmptyDict
    /\ highlight_color_by_eid' = EmptyDict
    /\ last' = [Op("clear") EXCEPT !.cand = selected_event_ids]
    /\ UNCHANGED <<events, day_map, year, month, file, dropdown>>

(***************************************************************************)
(* Inputs: the texts typed into the dialogs and the documents written by   *)
(* hand.                                                                   *)
(***************************************************************************)
DateText(d) ==
    [fmt |-> "%Y-%m-%d", d |-> d, h |-> 0, m |-> 0, s |-> 0, pad |-> TRUE,
     ws |-> FALSE]

TimeText(d, h, m) ==
    [fmt |-> "%Y-%m-%d %H:%M", d |-> d, h |-> h, m |-> m, s |-> 0,
     pad |-> TRUE, ws |-> FALSE]

JunkText ==
    [fmt |-> "none", d |-> 0, h |-> 0, m |-> 0, s |-> 0, pad |-> TRUE,
     ws |-> FALSE]

Names == {"a"}

Notes == {""}

DialogTexts == {DateText(d) : d \in 1..MaxDay}

FileId(n) == <<"file", n>>

Item(id, name, date, start, end, note) ==
    [id |-> id, name |-> name, date |-> date, start |-> start, end |-> end,
     note |-> note]

\* one event whose end is earlier than its start
DocInverted ==
    <<Item(Some(FileId(1)), Some("a"), None, Some(DateText(MaxDay)),
           Some(DateText(1)), Some(""))>>

\* the record shape with a single date field, and neither id nor name
DocLegacy == <<Item(None, None, Some(DateText(1)), None, None, None)>>

\* two records with one id
DocDuplicate ==
    <<Item(Some(FileId(1)), Some("a"), None, Some(DateText(1)), None, None),
      Item(Some(FileId(1)), Some("b"), None, Some(DateText(1)),
           Some(DateText(MaxDay)), None)>>

\* a record whose start is no date
DocBad ==
    <<Item(Some(FileId(1)), Some("a"), None, Some(JunkText), None, None)>>

\* a record with neither a start nor a date
DocNoStart ==
    <<Item(Some(FileId(1)), Some("a"), None, None, Some(DateText(1)), None)>>

ExternalDocs == {DocInverted, DocLegacy, DocDuplicate, DocBad, DocNoStart}

(***************************************************************************)
(* The specification of the application with a small store.                *)
(***************************************************************************)
\* CalendarApp.__init__ on the document doc, on the day today
InitOn(doc, today) ==
    LET loaded == load_events(doc,
                      FreshIds(DocIds(doc), MissingIds(doc, Len(doc))))
    IN  /\ loaded.ok
        /\ events = loaded.events
        /\ day_map = build_day_map(loaded.events)
        /\ selected_event_ids = {}
        /\ highlight_day_to_eids = EmptyDict
        /\ highlight_color_by_eid = EmptyDict
        /\ year = YearOf(today)
        /\ month = MonthOf(today)
        /\ file = save_events(loaded.events)
        /\ dropdown = None
        /\ last = [Op("init") EXCEPT !.steps = <<"load_events",
                                          "build_day_map", "save_events">>]
        /\ ops = 0

\* date.today(): the first day of the year after the year of day 1
Today == 12 * DaysPerMonth + 1

Init == \E doc \in ExternalDocs : InitOn(doc, Today)

AddEvent ==
    \E name \in Names, start \in DialogTexts, end \in DialogTexts,
       note \in Notes, save_ok \in BOOLEAN :
        /\ Len(events) < MaxEvents
        /\ add_event(name, start, end, note, save_ok)

EditEvent ==
    \E eid \in TreeIds, name \in Names, start \in DialogTexts,
       end \in DialogTexts, note \in Notes, save_ok \in BOOLEAN :
        edit_event(eid, name, start, end, note, save_ok)

DeleteEvent ==
    \E eid \in TreeIds, save_ok \in BOOLEAN : delete_event(eid, save_ok)

OpenDropdown == open_multiselect_dropdown

Apply ==
    \E cand \in SUBSET (IF dropdown = None THEN {} ELSE dropdown[1]),
       auto_jump \in BOOLEAN : apply(cand, auto_jump)

ClearHighlight == clear_highlight

Reload == \E doc \in {file} \cup ExternalDocs : reload(doc)

\* one more user operation
Count == ops < MaxOps /\ ops' = ops + 1

Next ==
    \/ Count /\ AddEvent
    \/ Count /\ EditEvent
    \/ Count /\ DeleteEvent
    \/ OpenDropdown
    \/ Count /\ Apply
    \/ Count /\ ClearHighlight
    \/ Count /\ Reload

Spec == Init /\ [][Next]_vars

(***************************************************************************)
(* The specification of the application with a store larger than the       *)
(* palette: the same handlers on a document of one-day events, with the    *)
(* rows of the dropdown selected from the top, MaxNew at a time at most.   *)
(***************************************************************************)
LargeSize == Len(HIGHLIGHT_PALETTE) + Overflow

LargeDoc ==
    [k \in 1..LargeSize |->
        Item(Some(FileId(k)), Some("a"), None, Some(DateText(1)),
             Some(DateText(1)), Some(""))]

InitLarge == InitOn(LargeDoc, 1)

\* the ids of the first k rows of get_event_display_items
FirstRows(k) ==
    LET sorted == SortEvents(events)
    IN  {sorted[i].id : i \in 1..k} \cap dropdown[1]

CountLarge == ops < MaxOpsLarge /\ ops' = ops + 1

AddEventL ==
    \E save_ok \in BOOLEAN :
        /\ Len(events) < LargeSize
        /\ add_event("a", DateText(1), DateText(1), "", save_ok)

EditEventL ==
    \E save_ok \in BOOLEAN :
        /\ events # <<>>
        /\ edit_event(events[1].id, "a", DateText(1), DateText(1), "", save_ok)

DeleteEventL ==
    \E save_ok \in BOOLEAN :
        /\ events # <<>>
        /\ delete_event(events[Len(events)].id, save_ok)

ApplyL ==
    /\ dropdown # None
    /\ \E k \in 0..Len(events) :
        /\ selected_event_ids \subseteq FirstRows(k)
        /\ Cardinality(FirstRows(k) \ DOMAIN highlight_color_by_eid) <= MaxNew
        /\ apply(FirstRows(k), FALSE)

ReloadL == reload(file)

NextLarge ==
    \/ CountLarge /\ AddEventL
    \/ CountLarge /\ EditEventL
    \/ CountLarge /\ DeleteEventL
    \/ OpenDropdown
    \/ CountLarge /\ ApplyL
    \/ CountLarge /\ ClearHighlight
    \/ CountLarge /\ ReloadL

SpecLarge == InitLarge /\ [][NextLarge]_vars

(***************************************************************************)
(* The specification of build_day_map as a function: any list of at most   *)
(* MaxLen events, in any order, is given to it.                            *)
(***************************************************************************)
Instants == {<<d, 0, 0, 0>> : d \in 1..(MaxDay + 1)} \cup {<<1, 9, 30, 0>>}

\* the events a list can hold at position k
EventsAt(k) ==
    {[oid |-> k, id |-> FileId(k), name |-> n, start |-> se[1],
      end |-> se[2], note |-> ""] :
        n \in {"a", "b"},
        se \in {x \in Instants \X Instants : ~DtLess(x[2], x[1])}}

RECURSIVE EventLists(_)
EventLists(n) ==
    IF n = 0 THEN {<<>>}
    ELSE {Append(l, e) : l \in EventLists(n - 1), e \in EventsAt(n)}

InitDayMap ==
    /\ events \in UNION {EventLists(n) : n \in 0..MaxLen}
    /\ day_map = EmptyDict
    /\ selected_event_ids = {}
    /\ highlight_day_to_eids = EmptyDict
    /\ highlight_color_by_eid = EmptyDict
    /\ year = YearOf(1)
    /\ month = MonthOf(1)
    /\ file = <<>>
    /\ dropdown = None
    /\ last = Op("none")
    /\ ops = 0

BuildDayMap ==
    /\ last.op = "none"
    /\ day_map' = build_day_map(events)
    /\ last' = [Op("build_day_map") EXCEPT !.steps = <<"build_day_map">>]
    /\ UNCHANGED <<events, highlight, year, month, file, dropdown, ops>>

NextDayMap == BuildDayMap

SpecDayMap == InitDayMap /\ [][NextDayMap]_vars

(***************************************************************************)
(* The specification of load_events as a function: any document of at most *)
(* MaxDocLen records, each with any of the shapes a record can have, is    *)
(* given to it.                                                            *)
(***************************************************************************)
LoadItems ==
    {Item(None, Some("a"), date, start, end, None) :
        date \in {None, Some(EmptyText), Some(DateText(2))},
        start \in {None, Some(JunkText), Some(DateText(1))},
        end \in {None, Some(EmptyText), Some(DateText(1))}}

RECURSIVE LoadDocs(_)
LoadDocs(n) ==
    IF n = 0 THEN {<<>>}
    ELSE {Append(doc, item) : doc \in LoadDocs(n - 1), item \in LoadItems}

InitLoad ==
    /\ file \in UNION {LoadDocs(n) : n \in 0..MaxDocLen}
    /\ events = <<>>
    /\ day_map = EmptyDict
    /\ selected_event_ids = {}
    /\ highlight_day_to_eids = EmptyDict
    /\ highlight_color_by_eid = EmptyDict
    /\ year = YearOf(1)
    /\ month = MonthOf(1)
    /\ dropdown = None
    /\ last = Op("none")
    /\ ops = 0

LoadEvents ==
    /\ last.op = "none"
    /\ LET loaded == load_events(file, FreshIds(DocIds(file),
                                               MissingIds(file, Len(file))))
       IN  /\ events' = loaded.events
           /\ last' = [Op("load_events") EXCEPT !.err = ~loaded.ok,
                                                !.steps = <<"load_events">>]
    /\ UNCHANGED <<day_map, highlight, year, month, file, dropdown, ops>>

NextLoad == LoadEvents

SpecLoad == InitLoad /\ [][NextLoad]_vars

(***************************************************************************)
(* The specification of parse_dt and dt_to_str as functions: any text is   *)
(* given to parse_dt, and the instant it returns to dt_to_str.             *)
(***************************************************************************)
Hours == {0, 9}

Minutes == {0, 30}

Seconds == {0, 15}

\* texts in each of the formats, with and without leading zeros and
\* surrounding white space, a text in no format and the empty text
ParseTexts ==
    {t \in [fmt : Range(DT_FORMATS), d : 1..MaxDay, h : Hours, m : Minutes,
            s : Seconds, pad : BOOLEAN, ws : BOOLEAN] :
        /\ t.fmt = "%Y-%m-%d" => t.h = 0 /\ t.m = 0
        /\ t.fmt # "%Y-%m-%d %H:%M:%S" => t.s = 0}
        \cup {JunkText, [JunkText EXCEPT !.ws = TRUE], EmptyText}

InitParse ==
    /\ \E t \in ParseTexts : last = [Op("none") EXCEPT !.input = Some(<<t>>)]
    /\ events = <<>>
    /\ day_map = EmptyDict
    /\ selected_event_ids = {}
    /\ highlight_day_to_eids = EmptyDict
    /\ highlight_color_by_eid = EmptyDict
    /\ year = YearOf(1)
    /\ month = MonthOf(1)
    /\ file = <<>>
    /\ dropdown = None
    /\ ops = 0

\* parse_dt on the text
ParseDt ==
    /\ last.op = "none"
    /\ LET r == parse_dt(last.input[1][1])
       IN  last' = [Op("parse_dt") EXCEPT !.input = last.input,
                                          !.err = ~r.ok,
                                          !.out = Some(r),
                                          !.steps = <<"parse_dt">>]
    /\ UNCHANGED <<events, day_map, highlight, year, month, file, dropdown,
                   ops>>

\* dt_to_str on the instant parse_dt returned
DtToStr ==
    /\ last.op = "parse_dt"
    /\ ~last.err
    /\ last' = [Op("dt_to_str") EXCEPT
                   !.input = last.input,
                   !.out = Some([dt   |-> last.out[1].dt,
                                 text |-> dt_to_str(last.out[1].dt)]),
                   !.steps = <<"parse_dt", "dt_to_str">>]
    /\ UNCHANGED <<events, day_map, highlight, year, month, file, dropdown,
                   ops>>

NextParse == ParseDt \/ DtToStr

SpecParse == InitParse /\ [][NextParse]_vars

(***************************************************************************)
(* The specification of the colour assignment of apply_selected_events on  *)
(* a large store: the call on all the rows of the dropdown, up to the      *)
(* assignment of self.selected_event_ids, one iteration of its while True  *)
(* loop at a time.  While the call runs, last.out holds its local          *)
(* variables: next_index and the ids that still await a colour (in the     *)
(* order of the event list, one of the orders in which the set can be      *)
(* iterated; the number of iterations is the same for every order).        *)
(***************************************************************************)
\* (i * 0.13) % 1.0 takes the same value every 100 indices: 100 * 0.13 = 13
PastelPeriod == 100

\* a document of n events of day 1, as save_events writes it
DrawDoc(n) ==
    [k \in 1..n |->
        Item(Some(FileId(k)), Some("a"), None, Some(DateText(1)),
             Some(DateText(1)), Some(""))]

\* the events load_events makes of DrawDoc(n)
DrawEvents(n) ==
    [k \in 1..n |->
        [oid |-> k, id |-> FileId(k), name |-> "a", start |-> <<1, 0, 0, 0>>,
         end |-> <<1, 0, 0, 0>>, note |-> ""]]

\* the application on a store of n events, after an apply of the first c
\* rows that met them in the order of the list, with the dropdown open
InitDrawOn(n, c) ==
    /\ events = DrawEvents(n)
    /\ day_map = DictSet(EmptyDict, 1, DrawEvents(n))
    /\ selected_event_ids = {FileId(k) : k \in 1..c}
    /\ highlight_color_by_eid
          = AssignNew(EmptyDict, {}, 0, [k \in 1..c |-> FileId(k)], 1)
    /\ highlight_day_to_eids
          = rebuild_highlight_day_map(DrawEvents(n),
                                      {FileId(k) : k \in 1..c})
    /\ year = YearOf(1)
    /\ month = MonthOf(1)
    /\ file = DrawDoc(n)
    /\ dropdown = Some(Ids(DrawEvents(n)))
    /\ last = [Op("apply") EXCEPT !.steps = <<"apply_selected_events">>,
                                  !.cand = {FileId(k) : k \in 1..c}]
    /\ ops = 0

InitDraw ==
    \E n \in {MaxSelected - 1, MaxSelected},
       c \in {0, Len(HIGHLIGHT_PALETTE)} : InitDrawOn(n, c)

\* _select_all and _apply: the filter on the existing ids and the first
\* loop of apply_selected_events. The ids that await a colour are met in
\* the order of the list: whether the loop ends depends on the number of
\* colours in use, which is the same in every order of iteration
ApplyBegin ==
    /\ dropdown # None
    /\ last.op = "apply"
    /\ LET cand    == dropdown[1]
           sel     == cand \cap Ids(events)
           carried == CarryForward(highlight_color_by_eid, sel)
       IN  /\ highlight_color_by_eid' = carried
           /\ last' = [Op("apply_selected_events") EXCEPT
                          !.cand = cand,
                          !.out = Some([next_index |-> 0,
                                        todo |-> SelectSeq(IdList(events),
                                            LAMBDA i : i \in sel
                                                /\ i \notin DOMAIN carried)])]
    /\ UNCHANGED <<events, day_map, selected_event_ids,
                   highlight_day_to_eids, year, month, file, dropdown, ops>>

\* one iteration of the while True loop for the first id that awaits a
\* colour
DrawStep ==
    /\ last.op = "apply_selected_events"
    /\ last.out[1].todo # <<>>
    /\ last.out[1].next_index < MaxIndex
    /\ LET next_index == last.out[1].next_index
           todo       == last.out[1].todo
           cand       == Candidate(next_index)
       IN  IF cand \notin Range(highlight_color_by_eid)
           THEN /\ highlight_color_by_eid'
                      = DictSet(highlight_color_by_eid, Head(todo), cand)
                /\ last' = [last EXCEPT
                               !.out = Some([next_index |-> next_index + 1,
                                             todo |-> Tail(todo)])]
           ELSE /\ UNCHANGED highlight_color_by_eid
                /\ last' = [last EXCEPT
                               !.out = Some([next_index |-> next_index + 1,
                                             todo |-> todo])]
    /\ UNCHANGED <<events, day_map, selected_event_ids,
                   highlight_day_to_eids, year, month, file, dropdown, ops>>

\* the for loop has met every id: self.selected_event_ids = selected_ids
AssignSelection ==
    /\ last.op = "apply_selected_events"
    /\ last.out[1].todo = <<>>
    /\ selected_event_ids' = last.cand \cap Ids(events)
    /\ last' = [Op("coloured") EXCEPT !.cand = last.cand]
    /\ UNCHANGED <<events, day_map, highlight_color_by_eid,
                   highlight_day_to_eids, year, month, file, dropdown, ops>>

NextDraw == ApplyBegin \/ DrawStep \/ AssignSelection

SpecDraw == InitDraw /\ [][NextDraw]_vars

(***************************************************************************)
(* Properties.                                                             *)
(***************************************************************************)
colour == highlight_color_by_eid

Mutations == {"add", "edit", "delete"}

\* C1: when an apply of a set S of existing ids is followed by an apply of
\* a set S' of existing ids that includes S, every id of S keeps its colour
\* and every id of S' outside S gets a colour that no id of S has.
GrowingSelectionKeepsColours ==
    [][(/\ last.op = "apply"
        /\ last'.op = "apply" /\ dropdown # None /\ dropdown' = None
        /\ last.cand \subseteq Ids(events)
        /\ last'.cand \subseteq Ids(events)
        /\ last.cand \subseteq last'.cand)
       => /\ \A i \in last.cand :
                i \in DOMAIN colour' /\ colour'[i] = colour[i]
          /\ \A j \in last'.cand \ last.cand :
                /\ j \in DOMAIN colour'
                /\ \A i \in last.cand : colour'[j] # colour[i]]_vars

\* a second apply has grown a selection by ids that had no colour
WitnessGrowingSelection ==
    /\ last.op = "apply"
    /\ ops = 2
    /\ Cardinality(selected_event_ids) > MaxNew
    /\ selected_event_ids = last.cand

\* C2: an add, edit, delete or reload leaves the colour of every id that is
\* in the store and selected before and after it as it was.
MutationKeepsColours ==
    [][last'.op \in Mutations \cup {"reload"}
       => \A i \in (selected_event_ids \cap selected_event_ids')
                       \cap (Ids(events) \cap Ids(events')) :
             /\ i \in DOMAIN colour
             /\ i \in DOMAIN colour'
             /\ colour'[i] = colour[i]]_vars

\* a mutation has re-applied a selection of an id whose colour is not the
\* first of the palette
WitnessMutationKeepsColours ==
    /\ last.op \in Mutations \cup {"reload"}
    /\ ~last.err
    /\ \E i \in selected_event_ids \cap Ids(events) :
          i \in DOMAIN colour /\ colour[i] # HIGHLIGHT_PALETTE[1]

\* C3: no two ids share a colour, and every selected id has one.
DistinctColours ==
    /\ selected_event_ids \subseteq DOMAIN colour
    /\ \A i \in DOMAIN colour, j \in DOMAIN colour :
          i # j => colour[i] # colour[j]

\* more ids are selected than the palette has colours
WitnessPaletteExhausted ==
    /\ Cardinality(selected_event_ids) > Len(HIGHLIGHT_PALETTE)
    /\ DOMAIN colour = selected_event_ids

\* C4: after an apply of the candidate set C the selection is C without the
\* ids that are not in the store, the colour dict has exactly the selected
\* ids as keys, no error was raised, and if no id of C is in the store the
\* selection and the day-hit map are empty.
StaleIdsDropped ==
    last.op = "apply"
    => /\ selected_event_ids = last.cand \cap Ids(events)
       /\ DOMAIN colour = selected_event_ids
       /\ ~last.err
       /\ (last.cand \cap Ids(events) = {}
           => /\ selected_event_ids = {}
              /\ DOMAIN highlight_day_to_eids = {})

\* an apply was given the id of an event that had been selected and removed
WitnessStaleIdsDropped ==
    /\ last.op = "apply"
    /\ last.cand # {}
    /\ last.cand \cap Ids(events) = {}
    /\ selected_event_ids = {}

\* C5: every selected id is the id of an event of the in-memory list.
SelectionWithinStore == selected_event_ids \subseteq Ids(events)

\* the steps of persist_and_refresh among the steps of an operation
RefreshSteps(steps) == SelectSeq(steps, LAMBDA x : x # "not_found")

\* C6: an add, edit or delete rebuilds the day index, then re-applies the
\* highlight, then writes the file.
RebuildApplyPersistOrder ==
    (last.op \in Mutations /\ ~last.err)
    => RefreshSteps(last.steps) =
           <<"build_day_map", "apply_selected_events", "save_events">>

\* C7: after an add, edit or delete whose write failed, day_map is the day
\* map of the events and the highlight state is that of a re-apply of the
\* selection on the events.
ConsistentWhenPersistFails ==
    (last.op \in Mutations /\ last.err)
    => /\ day_map = build_day_map(events)
       /\ selected_event_ids \subseteq Ids(events)
       /\ DOMAIN colour = selected_event_ids
       /\ highlight_day_to_eids
              = rebuild_highlight_day_map(events, selected_event_ids)

\* the number of times the object e stands in a bucket
Occurrences(bucket, e) ==
    Cardinality({i \in DOMAIN bucket : bucket[i].oid = e.oid})

\* C8: build_day_map puts every event of its list exactly once into the
\* bucket of every day from the day of its start to the day of its end, and
\* into no other bucket; the buckets hold nothing else, and none is empty.
DayIndexCoverage ==
    last.op = "build_day_map"
    => /\ \A k \in DOMAIN events, d \in 0..(MaxDay + 2) :
             Occurrences(DictGetList(day_map, d), events[k])
                 = IF DateOf(events[k].start) <= d /\ d <= DateOf(events[k].end)
                   THEN 1 ELSE 0
       /\ \A d \in DOMAIN day_map :
             /\ day_map[d] # <<>>
             /\ d \in 0..(MaxDay + 2)
             /\ Range(day_map[d]) \subseteq Range(events)

\* the day map of a list with an event of several days and an event that
\* does not cover every day has been built
WitnessDayIndexCoverage ==
    /\ last.op = "build_day_map"
    /\ \E k \in DOMAIN events :
          /\ DateOf(events[k].end) > DateOf(events[k].start)
          /\ \A d \in DateOf(events[k].start)..DateOf(events[k].end) :
                d \in DOMAIN day_map /\ events[k] \in Range(day_map[d])
    /\ \E k \in DOMAIN events, d \in DOMAIN day_map :
          events[k] \notin Range(day_map[d])

\* the list of the scenario: E1 on one day, E2 from the day before to the
\* day after
IsScenario(evs) ==
    /\ Len(evs) = 2
    /\ evs[1].start = <<2, 0, 0, 0>> /\ evs[1].end = <<2, 0, 0, 0>>
    /\ evs[2].start = <<1, 0, 0, 0>> /\ evs[2].end = <<3, 0, 0, 0>>

\* C9: every bucket built by build_day_map is in ascending order of
\* (start, end, name), whatever the order of the list; the list <<E1, E2>>
\* of the scenario gives <<E2, E1>> on the day of E1 and <<E2>> on the next.
DayIndexOrdering ==
    last.op = "build_day_map"
    => /\ \A d \in DOMAIN day_map :
             \A i \in DOMAIN day_map[d], j \in DOMAIN day_map[d] :
                i < j => ~TupleLess(SortKey(day_map[d][j]),
                                    SortKey(day_map[d][i]))
       /\ IsScenario(events)
          => /\ day_map[2] = <<events[2], events[1]>>
             /\ day_map[3] = <<events[2]>>

\* the day map of the scenario has been built
WitnessDayIndexOrdering ==
    /\ last.op = "build_day_map"
    /\ IsScenario(events)
    /\ day_map[2] = <<events[2], events[1]>>

\* the boundaries s and e, exchanged if e is earlier than s, are those of ev
Exchanged(ev, s, e) ==
    IF DtLess(e, s) THEN ev.start = e /\ ev.end = s
    ELSE ev.start = s /\ ev.end = e

RangeInvariant(evs) == \A k \in DOMAIN evs : ~DtLess(evs[k].end, evs[k].start)

\* C10: every stored event has start <= end; the event an add or an edit
\* has stored, and every event a reload has loaded, has the two boundaries
\* parsed from its texts, exchanged if the end was earlier than the start.
SwapLaw ==
    /\ RangeInvariant(events)
    /\ (last.op \in {"add", "edit"} /\ last.input # None)
       => Exchanged(events[find_event_by_id(events, last.eid[1])],
                    parse_dt(last.input[1][1]).dt,
                    parse_dt(last.input[1][2]).dt)
    /\ (last.op = "reload" /\ ~last.err)
       => \A k \in DOMAIN events :
             Exchanged(events[k], ItemStart(file[events[k].oid]).dt,
                       ItemEnd(file[events[k].oid]).dt)

\* an edit of the loaded event was given an end earlier than its start, was
\* saved, and the event has the two exchanged
WitnessSwapLaw ==
    /\ last.op = "edit"
    /\ last.input # None
    /\ DtLess(parse_dt(last.input[1][2]).dt, parse_dt(last.input[1][1]).dt)
    /\ file = save_events(events)
    /\ \E k \in DOMAIN events :
          /\ events[k].id = FileId(1)
          /\ events[k].start = parse_dt(last.input[1][2]).dt
          /\ events[k].end = parse_dt(last.input[1][1]).dt

\* C11: after a load (at start or on reload) and after an add, edit or
\* delete that was saved, the in-memory list is in ascending order of
\* (start, end, name).
CanonicalStoreOrder ==
    (last.op \in Mutations \cup {"init", "reload"} /\ ~last.err)
    => IsSorted(events)

\* C12: the ids of the events of the in-memory list are pairwise distinct.
IdUniqueness ==
    \A i \in DOMAIN events, j \in DOMAIN events :
        events[i].id = events[j].id => i = j

\* C13: an edit changes no id of the list, and a reload that follows a
\* reload of the same, unchanged file gives every record the id it had.
IdStability ==
    [][/\ last'.op = "edit" => IdList(events') = IdList(events)
       /\ (/\ last.op = "reload" /\ ~last.err
           /\ last'.op = "reload" /\ ~last'.err
           /\ file' = file)
          => IdList(events') = IdList(events)]_vars

\* C14: the event loaded from a record with a non-empty date field starts
\* and ends at the instant its date text spells; the event loaded from a
\* record without one, with a start and no or an empty end, starts and ends
\* at the instant its start text spells.
RecordNormalization ==
    (last.op = "load_events" /\ ~last.err)
    => \A k \in DOMAIN events :
          LET item == file[events[k].oid]
          IN  /\ (item.date # None /\ item.date[1] # EmptyText)
                 => /\ events[k].start = parse_dt(item.date[1]).dt
                    /\ events[k].end = events[k].start
              /\ (/\ item.date = None \/ item.date[1] = EmptyText
                  /\ item.start # None
                  /\ item.end = None \/ item.end[1] = EmptyText)
                 => /\ events[k].start = parse_dt(item.start[1]).dt
                    /\ events[k].end = events[k].start

\* a document was loaded that holds a record with a date, a start and an
\* end that spell different days, and a record with a start and an empty end
WitnessRecordNormalization ==
    /\ last.op = "load_events"
    /\ ~last.err
    /\ \E k \in DOMAIN events :
          /\ file[events[k].oid].date = Some(DateText(2))
          /\ file[events[k].oid].end = Some(DateText(1))
          /\ events[k].start = <<2, 0, 0, 0>>
          /\ events[k].end = <<2, 0, 0, 0>>
    /\ \E k \in DOMAIN events :
          /\ file[events[k].oid].date = None
          /\ file[events[k].oid].end = Some(EmptyText)
          /\ events[k].start = <<1, 0, 0, 0>>
          /\ events[k].end = <<1, 0, 0, 0>>

\* the item has no derivable start: no date and no start, or a text that is
\* no date
NoDerivableStart(item) ==
    IF item.date # None /\ item.date[1] # EmptyText
    THEN ~parse_dt(item.date[1]).ok
    ELSE item.start = None \/ ~parse_dt(item.start[1]).ok

\* C15: a reload of a document with a record that has no derivable start
\* raises in load_events and leaves the events, the day map and the
\* highlight state as they were.
LoadAllOrNothing ==
    [][(/\ last'.op = "reload"
        /\ \E k \in DOMAIN file' : NoDerivableStart(file'[k]))
       => /\ last'.err
          /\ last'.steps = <<"load_events">>
          /\ events' = events
          /\ day_map' = day_map
          /\ highlight' = highlight]_vars

\* a reload of a document with such a record has raised while events were
\* stored and selected
WitnessLoadAllOrNothing ==
    /\ last.op = "reload"
    /\ last.err
    /\ \E k \in DOMAIN file : NoDerivableStart(file[k])
    /\ events # <<>>
    /\ selected_event_ids # {}
    /\ DOMAIN day_map # {}

\* C16: the text dt_to_str makes of the instant parse_dt read from a text
\* in the date-only format is that text; dt_to_str writes the date-only
\* form when hour, minute and second are zero, the form with hour and minute
\* otherwise, and never seconds.
DateRoundTrip ==
    last.op = "dt_to_str"
    => LET d    == last.input[1][1]
           dt   == last.out[1].dt
           text == last.out[1].text
       IN  /\ d.fmt = "%Y-%m-%d" => text = d
           /\ text.fmt = IF dt[2] = 0 /\ dt[3] = 0 /\ dt[4] = 0
                         THEN "%Y-%m-%d" ELSE "%Y-%m-%d %H:%M"
           /\ text.d = dt[1] /\ text.h = dt[2] /\ text.m = dt[3]
           /\ text.s = 0

\* C17: parse_dt returns an instant exactly for the texts in one of the
\* three formats, the instant the first format that fits spells; for any
\* other text it raises an error that carries the text and all the formats.
ParseFailureExplicit ==
    last.op = "parse_dt"
    => LET t == last.input[1][1]
           r == last.out[1]
       IN  /\ r.ok <=> t.fmt \in Range(DT_FORMATS)
           /\ r.ok => r.dt = <<t.d, t.h, t.m, t.s>>
           /\ ~r.ok => /\ last.err
                       /\ r.text \in {t, strip(t)}
                       /\ r.patterns = DT_FORMATS

FirstAt(bucket, i) ==
    IF \E k \in DOMAIN bucket : bucket[k].id = i
    THEN Min({k \in DOMAIN bucket : bucket[k].id = i}) ELSE 0

\* C19: on every day, every id of the day-hit map is selected and is the id
\* of an event of the day's bucket of day_map, and every selected event of
\* the bucket has its id in the day-hit map.
DayHitRelation ==
    \A d \in DOMAIN highlight_day_to_eids \cup DOMAIN day_map :
        /\ \A i \in Range(DictGetList(highlight_day_to_eids, d)) :
              /\ i \in selected_event_ids
              /\ \E e \in Range(DictGetList(day_map, d)) : e.id = i
        /\ \A e \in Range(DictGetList(day_map, d)) :
              e.id \in selected_event_ids
              => e.id \in Range(DictGetList(highlight_day_to_eids, d))

\* C20: on every day, the day-hit map lists no id twice, and two ids of it
\* whose events are in the day's bucket of day_map stand in the order in
\* which the bucket, sorted by (start, end, name), holds their events.
DayHitOrder ==
    \A d \in DOMAIN highlight_day_to_eids :
        LET hit    == highlight_day_to_eids[d]
            bucket == DictGetList(day_map, d)
        IN  \A i \in DOMAIN hit, j \in DOMAIN hit :
                /\ hit[i] = hit[j] => i = j
                /\ (/\ i < j
                    /\ FirstAt(bucket, hit[i]) # 0
                    /\ FirstAt(bucket, hit[j]) # 0)
                   => FirstAt(bucket, hit[i]) < FirstAt(bucket, hit[j])

\* C21: while an id awaits a colour in the loop of apply_selected_events,
\* one of the indices the loop will try has a colour that is not in use:
\* the loop finds a colour for the id and the call returns.
ApplyTerminates ==
    (last.op = "apply_selected_events" /\ last.out[1].todo # <<>>)
    => \E i \in last.out[1].next_index
                 ..(last.out[1].next_index + PastelPeriod) :
          Candidate(i) \notin Range(highlight_color_by_eid)

\* C22: the colours an apply leaves are those every order of iteration of
\* the candidate set gives: they depend on the colours before, the
\* candidate set and the event list only.
ReproducibleAssignment ==
    [][(ops' # ops /\ last'.op = "apply")
       => \A order \in NewOrders(events, colour, last'.cand) :
             apply_selected_events(events, colour, <<year, month>>,
                                   last'.cand, FALSE, order).colors
                 = colour']_vars

\* the colours in the order of choice: the palette, then the generated
\* colours of the indices behind it, up to the index n
ColourChoice(n) ==
    [i \in 1..n |-> IF i <= Len(HIGHLIGHT_PALETTE) THEN HIGHLIGHT_PALETTE[i]
                    ELSE pastel_from_index(i - 1)]

\* C23: the ids an apply gives a colour get the first colours of the order
\* of choice that no id kept: palette colours as long as one is free, in
\* the order of the palette, generated colours in the order of their
\* indices only when no palette colour is free.
PaletteBeforeOverflow ==
    [][(ops' # ops /\ last'.op = "apply")
       => LET new  == DOMAIN colour' \ DOMAIN colour
              kept == {colour'[i] : i \in DOMAIN colour' \cap DOMAIN colour}
              free == SelectSeq(ColourChoice(Len(HIGHLIGHT_PALETTE)
                                                + Cardinality(DOMAIN colour')),
                                LAMBDA c : c \notin kept)
          IN  {colour'[i] : i \in new}
                  = {free[k] : k \in 1..Cardinality(new)}]_vars

\* an apply has given new ids the last free palette colour and a generated
\* colour
WitnessPaletteBeforeOverflow ==
    /\ last.op = "apply"
    /\ ops > 1
    /\ Cardinality(DOMAIN colour) = Len(HIGHLIGHT_PALETTE) + 1
    /\ \E i \in DOMAIN colour :
          colour[i] = pastel_from_index(Len(HIGHLIGHT_PALETTE))

\* C24: an apply with auto_jump and a non-empty resulting selection displays
\* the year and month of the start of a selected event that no selected
\* event precedes by (start, end); an apply without auto_jump or with an
\* empty resulting selection, and every add, edit, delete and reload, leaves
\* the displayed year and month as they were.
Jumped ==
    last'.op = "apply" /\ last'.input = Some(TRUE)
        /\ selected_event_ids' # {}

AutoJump ==
    [][ops' # ops =>
        /\ Jumped =>
               \E k \in DOMAIN events' :
                   /\ events'[k].id \in selected_event_ids'
                   /\ \A j \in DOMAIN events' :
                          events'[j].id \in selected_event_ids'
                              => ~StartEndLess(events'[j], events'[k])
                   /\ year' = YearOf(DateOf(events'[k].start))
                   /\ month' = MonthOf(DateOf(events'[k].start))
        /\ (last'.op = "apply" /\ ~Jumped) => UNCHANGED <<year, month>>
        /\ last'.op \in Mutations \cup {"reload"}
               => UNCHANGED <<year, month>>]_vars

\* an apply with auto_jump has moved the display away from the month of
\* today, to the month of the earliest of two selected events, which is not
\* the first of them in the store
WitnessAutoJump ==
    /\ last.op = "apply" /\ last.input = Some(TRUE)
    /\ Len(events) = 2
    /\ selected_event_ids = {events[1].id, events[2].id}
    /\ StartEndLess(events[2], events[1])
    /\ <<year, month>> = <<YearOf(DateOf(events[2].start)),
                           MonthOf(DateOf(events[2].start))>>
    /\ <<year, month>> # <<YearOf(DateOf(events[1].start)),
                           MonthOf(DateOf(events[1].start))>>
    /\ year # YearOf(Today)

\* C26: clear_highlight empties selected_event_ids, highlight_color_by_eid
\* and highlight_day_to_eids and leaves the event list, day_map and the
\* displayed year and month as they were; the apply that follows a clear
\* gives the selected ids the first palette colours, whatever colours they
\* had before the clear.
ClearResetsHighlight ==
    [][ops' # ops =>
        /\ last'.op = "clear" =>
               /\ selected_event_ids' = {}
               /\ highlight_color_by_eid' = EmptyDict
               /\ highlight_day_to_eids' = EmptyDict
               /\ UNCHANGED <<events, day_map, year, month>>
        /\ (last.op = "clear" /\ last'.op = "apply") =>
               /\ DOMAIN colour' = selected_event_ids'
               /\ Range(colour') =
                      {HIGHLIGHT_PALETTE[i] :
                          i \in 1..Cardinality(selected_event_ids')}]_vars

\* a highlight of at least one event has been cleared
WitnessClearResetsHighlight ==
    /\ last.op = "clear" /\ last.cand # {}
    /\ selected_event_ids = {}
    /\ highlight_color_by_eid = EmptyDict
    /\ highlight_day_to_eids = EmptyDict
    /\ events # <<>>

=============================================================================
